---------------------------- MODULE Spec2Model ----------------------------
(***************************************************************************)
(* Model of the BOPTEST test case harness, src/testcase.py (class          *)
(* TestCase): the stepwise simulation-advance engine, its clock, its       *)
(* input validation and clamping, its trajectory stores and its latency    *)
(* log.  Times, steps and values are integers standing for the floats of   *)
(* the source.                                                             *)
(***************************************************************************)
EXTENDS Integers, Sequences, FiniteSets

VARIABLES
    start_time,            \* self.start_time
    final_time,            \* self.final_time: <<>> while the attribute does not exist
    step,                  \* self.step
    horizon,               \* self.horizon
    interval,              \* self.interval
    initialize,            \* self.initialize
    options_initialize,    \* self.options['initialize']
    tic_time,              \* hasattr(self, 'tic_time')
    elapsed_control_time,  \* self.elapsed_control_time
    y,                     \* self.y: key -> <<>> (the empty list) or <<value>>
    y_store,               \* self.y_store: key -> list
    u_store,               \* self.u_store: key -> list
    inputs_metadata,       \* self.inputs_metadata: name -> [Minimum, Maximum]
    call,                  \* history: the last call made on the harness
    n_advance,             \* history: advance calls since construction or reset
    n_ok,                  \* history: advance calls that returned, since then
    zero_step,             \* history: one of those ran with a step of 0
    probe,                 \* the value under test of the clamping specification
    caller                 \* the objects a caller of the API keeps hold of

vars == <<start_time, final_time, step, horizon, interval, initialize,
          options_initialize, tic_time, elapsed_control_time, y, y_store,
          u_store, inputs_metadata, call, n_advance, n_ok, zero_step, probe,
          caller>>

-----------------------------------------------------------------------------
(* Bounds of the model *)

MaxAdvance == 3      \* advance calls between two resets
MaxStep == 2         \* largest step set_step is given
MaxValue == 4        \* largest number a request holds
MaxBound == 3        \* largest declared bound of the clamping specification

(* The configuration config.get_config() returns *)
ConStep == 1
ConHorizon == 2
ConInterval == 1

(* The declared bounds of the one numeric input of the loaded FMU *)
FmuMinimum == 2
FmuMaximum == 3

-----------------------------------------------------------------------------
(* The variable catalog of the FMU *)

U == "oveAct_u"
ACT == "oveAct_activate"
TIME == "time"
OUT == "TRooAir_y"

input_names == {U, ACT}
output_names == {OUT}
YKeys == {TIME} \cup output_names
UKeys == {TIME} \cup input_names
ResKeys == YKeys \cup UKeys

\* '_activate' in key
HasActivate(key) == key \in {ACT}

\* the order in which u.keys() is iterated
KeyOrder == <<U, ACT, TIME>>
RequestKeys == {KeyOrder[i] : i \in 1..Len(KeyOrder)}

_get_var_metadata(mini, maxi) ==
    [var \in input_names |->
        IF HasActivate(var)
        THEN [bounded |-> FALSE, Minimum |-> 0, Maximum |-> 0]
        ELSE [bounded |-> TRUE, Minimum |-> mini, Maximum |-> maxi]]

-----------------------------------------------------------------------------
(* Request values: what a caller may put under a key of u *)

Absent == [tag |-> "absent", num |-> 0]      \* the key is not in u
NoneV == [tag |-> "None", num |-> 0]         \* None
EmptyStr == [tag |-> "empty", num |-> 0]     \* ''
Num(n) == [tag |-> "num", num |-> n]         \* a number
NumStr(n) == [tag |-> "numstr", num |-> n]   \* a string that reads as a number
BadStr == [tag |-> "badstr", num |-> 0]      \* a string that reads as none

\* if u[key]: Python's truth of a value
Truthy(v) ==
    \/ v.tag = "num" /\ v.num # 0
    \/ v.tag \in {"numstr", "badstr"}

\* float(u[key]) returns; it raises ValueError on a string that is no number
Coercible(v) == v.tag \in {"num", "numstr"}
Float(v) == v.num

-----------------------------------------------------------------------------
(* Input validation *)

\* a check that truncates to the maximum alone
_check_value_max_only(var, value) ==
    LET maxi == inputs_metadata[var].Maximum
    IN  IF value > maxi THEN maxi ELSE value

\* a check that reads the two bounds the wrong way round
_check_value_swapped(var, value) ==
    LET mini == inputs_metadata[var].Maximum
        maxi == inputs_metadata[var].Minimum
    IN  IF value > maxi THEN maxi
        ELSE IF value < mini THEN mini
        ELSE value

_check_value_min_max(var, value) ==
    LET mini == inputs_metadata[var].Minimum
        maxi == inputs_metadata[var].Maximum
    IN  IF value > maxi THEN maxi
        ELSE IF value < mini THEN mini
        ELSE value

\* advance, the body of its loop over the written keys
CheckedValue(key, value) ==
    IF ~HasActivate(key) THEN _check_value_min_max(key, value) ELSE value

NoInput == [is_none |-> TRUE, u_list |-> <<>>, u_trajectory |-> <<>>]

\* a harness that takes every key of the request for a written value
WrittenAnyKey(u) == \E key \in RequestKeys : u[key].tag # "absent"

\* lines 101-108: written, True as soon as one value of u is true
Written(u) == \E key \in RequestKeys : u[key].tag # "absent" /\ Truthy(u[key])

WrittenKeys(u) ==
    LET Taken(key) == u[key].tag # "absent" /\ key # TIME /\ Truthy(u[key])
    IN  SelectSeq(KeyOrder, Taken)

\* float(u[key]) raises inside the loop
Raises(u) ==
    Written(u) /\ \E i \in 1..Len(WrittenKeys(u)) : ~Coercible(u[WrittenKeys(u)[i]])

InputObject(u, t0) ==
    IF Written(u)
    THEN LET u_list == WrittenKeys(u)
         IN  [is_none |-> FALSE,
              u_list |-> u_list,
              u_trajectory |-> <<t0>> \o
                  [i \in 1..Len(u_list) |->
                      CheckedValue(u_list[i], Float(u[u_list[i]]))]]
    ELSE NoInput

-----------------------------------------------------------------------------
(* The simulation engine: fmu.simulate over [start_time, final_time] *)

RECURSIVE Ascending(_)
Ascending(S) ==
    IF S = {} THEN <<>>
    ELSE LET least == CHOOSE a \in S : \A b \in S : a <= b
         IN  <<least>> \o Ascending(S \ {least})

\* the sample times of one response: the two endpoints alone, or with every
\* time between them
Grids(t0, t1) ==
    IF t1 < t0 THEN {}
    ELSE {<<t0, t1>>, <<t0>> \o Ascending((t0 + 1)..(t1 - 1)) \o <<t1>>}

\* the value the engine reports for a variable at a time
Signal(key, t) ==
    IF key = TIME THEN t
    ELSE IF key \in output_names THEN 20 - t
    ELSE 0

\* res: one equally long sequence per declared variable
Simulate(t0, t1) ==
    {[key \in ResKeys |-> [i \in 1..Len(grid) |-> Signal(key, grid[i])]] :
        grid \in Grids(t0, t1)}

\* a merge that appends the whole response, its first sample included
RestWhole(seq) == seq

\* a merge that slices the response at the wrong end, [:-1]
RestButLast(seq) == SubSeq(seq, 1, Len(seq) - 1)

\* res[key].tolist()[1:]
Rest(seq) == SubSeq(seq, 2, Len(seq))

\* a harness that reads the first sample of the response
First(seq) == seq[1]

\* res[key][-1]
Last(seq) == seq[Len(seq)]

-----------------------------------------------------------------------------
(* The calls of the API *)

EmptyRequest == [key \in RequestKeys |-> Absent]

UValues == {Absent, NoneV, EmptyStr, BadStr, NumStr(0)} \cup {Num(n) : n \in 0..MaxValue}
ActValues == {Absent, NoneV, Num(0), Num(1), Num(MaxValue)}
TimeValues == {Absent, Num(1)}

Requests ==
    {[key \in RequestKeys |->
        IF key = U THEN a ELSE IF key = ACT THEN b ELSE c] :
        a \in UValues, b \in ActValues, c \in TimeValues}

\* the requests of the main specification: the numeric input alone, not
\* given, None, zero, above its maximum, or a string that is no number
StepRequests ==
    {[EmptyRequest EXCEPT ![U] = v] : v \in {Absent, NoneV, Num(0), Num(MaxValue), BadStr}}

StepValues == 0..MaxStep
ForecastValues == {-1, ConHorizon}

Called(op) ==
    [op |-> op, outcome |-> "ok", request |-> EmptyRequest,
     engine_called |-> FALSE, t0 |-> 0, t1 |-> 0, init |-> FALSE,
     input_object |-> NoInput, ok_before |-> 0, advance_before |-> 0,
     arg |-> 0, m |-> 0]

\* a harness that never refreshes options['initialize'] before the step
EngineInitializeStale == options_initialize

\* line 131: self.options['initialize'] = self.initialize
EngineInitialize == initialize

\* a harness that forgets to advance its clock
NextStartStale(t1) == start_time

\* a harness that adds the step to its clock a second time
NextStartTwice(t1) == t1 + step

\* line 144: self.start_time = self.final_time
NextStart(t1) == t1

AdvanceCalled(outcome, u, engine_called, t1, input_object) ==
    [op |-> "advance", outcome |-> outcome, request |-> u,
     engine_called |-> engine_called, t0 |-> start_time, t1 |-> t1,
     init |-> IF engine_called THEN EngineInitialize ELSE FALSE,
     input_object |-> input_object,
     ok_before |-> n_ok, advance_before |-> n_advance, arg |-> 0, m |-> 0]

\* self.tac_time - self.tic_time: one measured duration
Elapsed == 1

\* lines 92-95 of advance: the latency capture
Latency ==
    IF tic_time THEN Append(elapsed_control_time, Elapsed) ELSE elapsed_control_time

\* advance raises at float(u[key]): lines 92-115 have run
AdvanceRaises(u) ==
    /\ Raises(u)
    /\ elapsed_control_time' = Latency
    /\ final_time' = <<start_time + step>>
    /\ call' = AdvanceCalled("ValueError", u, FALSE, start_time + step, NoInput)
    /\ n_advance' = n_advance + 1
    /\ UNCHANGED <<start_time, step, horizon, interval, initialize,
                   options_initialize, tic_time, y, y_store, u_store,
                   inputs_metadata, n_ok, zero_step, probe, caller>>

\* a harness that advances its clock before the engine answers
AdvanceEngineFailsLate(u) ==
    /\ ~Raises(u)
    /\ elapsed_control_time' = Latency
    /\ final_time' = <<start_time + step>>
    /\ options_initialize' = EngineInitialize
    /\ start_time' = start_time + step
    /\ call' = AdvanceCalled("EngineError", u, TRUE, start_time + step,
                             InputObject(u, start_time))
    /\ n_advance' = n_advance + 1
    /\ UNCHANGED <<step, horizon, interval, initialize, tic_time,
                   y, y_store, u_store, inputs_metadata, n_ok, zero_step, probe, caller>>

\* fmu.simulate raises: lines 92-135 have run
AdvanceEngineFails(u) ==
    /\ ~Raises(u)
    /\ elapsed_control_time' = Latency
    /\ final_time' = <<start_time + step>>
    /\ options_initialize' = EngineInitialize
    /\ call' = AdvanceCalled("EngineError", u, TRUE, start_time + step,
                             InputObject(u, start_time))
    /\ n_advance' = n_advance + 1
    /\ UNCHANGED <<start_time, step, horizon, interval, initialize, tic_time,
                   y, y_store, u_store, inputs_metadata, n_ok, zero_step, probe, caller>>

\* what the caller reads after lines 137-142 have assigned into the dicts
\* self.y, self.y_store and self.u_store: an object the harness still holds
\* shows the new items
Mutated(c, y_new, y_store_new, u_store_new) ==
    [results |-> IF c.results.held /\ c.results.shared
                 THEN [c.results EXCEPT !.now = [y |-> y_store_new, u |-> u_store_new]]
                 ELSE c.results,
     sample |-> IF c.sample.held /\ c.sample.shared
                THEN [c.sample EXCEPT !.now = y_new]
                ELSE c.sample]

\* what the caller reads after __init__ has bound self.y, self.y_store and
\* self.u_store to new dicts: the old objects are the caller's alone
Rebound(c) ==
    [results |-> [c.results EXCEPT !.shared = FALSE],
     sample |-> [c.sample EXCEPT !.shared = FALSE]]

\* advance returns self.y
AdvanceReturns(u) ==
    /\ ~Raises(u)
    /\ \E res \in Simulate(start_time, start_time + step) :
        /\ y' = [key \in YKeys |-> <<Last(res[key])>>]
        /\ y_store' = [key \in YKeys |-> y_store[key] \o Rest(res[key])]
        /\ u_store' = [key \in UKeys |-> u_store[key] \o Rest(res[key])]
        /\ call' = [AdvanceCalled("ok", u, TRUE, start_time + step,
                                  InputObject(u, start_time))
                        EXCEPT !.m = Len(res[TIME])]
    /\ caller' = Mutated(caller, y', y_store', u_store')
    /\ elapsed_control_time' = Latency
    /\ final_time' = <<start_time + step>>
    /\ options_initialize' = EngineInitialize
    /\ start_time' = NextStart(start_time + step)
    /\ initialize' = FALSE
    /\ tic_time' = TRUE
    /\ n_advance' = n_advance + 1
    /\ n_ok' = n_ok + 1
    /\ zero_step' = (zero_step \/ step = 0)
    /\ UNCHANGED <<step, horizon, interval, inputs_metadata, probe>>

advance(u) ==
    /\ n_advance < MaxAdvance
    /\ \/ AdvanceRaises(u)
       \/ AdvanceEngineFails(u)
       \/ AdvanceReturns(u)

\* a set_step that arms the engine's initialisation again
set_step_rearmed(s) ==
    /\ step' = s
    /\ initialize' = TRUE
    /\ call' = [Called("set_step") EXCEPT !.arg = s]
    /\ UNCHANGED <<start_time, final_time, horizon, interval,
                   options_initialize, tic_time, elapsed_control_time, y,
                   y_store, u_store, inputs_metadata, n_advance, n_ok,
                   zero_step, probe, caller>>

\* line 178: self.step = float(step)
set_step(s) ==
    /\ step' = s
    /\ call' = [Called("set_step") EXCEPT !.arg = s]
    /\ UNCHANGED <<start_time, final_time, horizon, interval, initialize,
                   options_initialize, tic_time, elapsed_control_time, y,
                   y_store, u_store, inputs_metadata, n_advance, n_ok,
                   zero_step, probe, caller>>

set_forecast_parameters(h, i) ==
    /\ horizon' = h
    /\ interval' = i
    /\ call' = Called("set_forecast_parameters")
    /\ UNCHANGED <<start_time, final_time, step, initialize,
                   options_initialize, tic_time, elapsed_control_time, y,
                   y_store, u_store, inputs_metadata, n_advance, n_ok,
                   zero_step, probe, caller>>

\* __init__: the fields the constructor assigns
Constructed ==
    /\ y = [key \in YKeys |-> <<>>]
    /\ y_store = [key \in YKeys |-> <<>>]
    /\ u_store = [key \in UKeys |-> <<>>]
    /\ step = ConStep
    /\ horizon = ConHorizon
    /\ interval = ConInterval
    /\ start_time = 0
    /\ initialize = TRUE
    /\ options_initialize = TRUE
    /\ elapsed_control_time = <<>>

\* a reset that keeps the step last set
ResetStepKept == step

\* line 66: self.set_step(con['step'])
ResetStep == ConStep

\* reset runs __init__ on the same object: final_time and tic_time are fields
\* the constructor does not assign, so they stay
reset ==
    /\ y' = [key \in YKeys |-> <<>>]
    /\ y_store' = [key \in YKeys |-> <<>>]
    /\ u_store' = [key \in UKeys |-> <<>>]
    /\ step' = ResetStep
    /\ horizon' = ConHorizon
    /\ interval' = ConInterval
    /\ start_time' = 0
    /\ initialize' = TRUE
    /\ options_initialize' = TRUE
    /\ elapsed_control_time' = <<>>
    /\ call' = Called("reset")
    /\ n_advance' = 0
    /\ n_ok' = 0
    /\ zero_step' = FALSE
    /\ caller' = Rebound(caller)
    /\ UNCHANGED <<final_time, tic_time, inputs_metadata, probe>>

NoProbe == [key |-> U, value |-> 0, out |-> <<>>]

\* a caller that holds no object of the harness
NoCaller ==
    [results |-> [held |-> FALSE, shared |-> FALSE,
                  now |-> [y |-> [key \in YKeys |-> <<>>],
                           u |-> [key \in UKeys |-> <<>>]]],
     sample |-> [held |-> FALSE, shared |-> FALSE,
                 now |-> [key \in YKeys |-> <<>>]]]

Init ==
    /\ Constructed
    /\ final_time = <<>>
    /\ tic_time = FALSE
    /\ inputs_metadata = _get_var_metadata(FmuMinimum, FmuMaximum)
    /\ call = Called("__init__")
    /\ n_advance = 0
    /\ n_ok = 0
    /\ zero_step = FALSE
    /\ probe = NoProbe
    /\ caller = NoCaller

Next ==
    \/ \E u \in StepRequests : advance(u)
    \/ \E s \in StepValues : set_step(s)
    \/ \E h \in ForecastValues, i \in ForecastValues : set_forecast_parameters(h, i)
    \/ reset

Spec == Init /\ [][Next]_vars

-----------------------------------------------------------------------------
(* The specification of the runs in which every advance returns *)

ReturnNext ==
    \/ \E u \in StepRequests : n_advance < MaxAdvance /\ AdvanceReturns(u)
    \/ \E s \in StepValues : set_step(s)
    \/ \E h \in ForecastValues, i \in ForecastValues : set_forecast_parameters(h, i)
    \/ reset

ReturnSpec == Init /\ [][ReturnNext]_vars

-----------------------------------------------------------------------------
(* The request specification: every request, at the configured step *)

RequestNext ==
    \/ \E u \in Requests : advance(u)
    \/ reset

RequestSpec == Init /\ [][RequestNext]_vars

-----------------------------------------------------------------------------
(* The clamping specification: for every pair of declared bounds, the value
   processing of advance applied, and applied again, to every key and value,
   and one advance with every request *)

ClampInit ==
    /\ Constructed
    /\ final_time = <<>>
    /\ tic_time = FALSE
    /\ \E mini \in 1..MaxBound, maxi \in 1..MaxBound :
           inputs_metadata = _get_var_metadata(mini, maxi)
    /\ call = Called("__init__")
    /\ n_advance = 0
    /\ n_ok = 0
    /\ zero_step = FALSE
    /\ \E key \in input_names, value \in 0..MaxValue :
           probe = [key |-> key, value |-> value, out |-> <<>>]
    /\ caller = NoCaller

Clamp ==
    /\ Len(probe.out) < 2
    /\ probe' = [probe EXCEPT !.out = Append(@,
           CheckedValue(probe.key,
                        IF probe.out = <<>> THEN probe.value ELSE Last(probe.out)))]
    /\ UNCHANGED <<start_time, final_time, step, horizon, interval, initialize,
                   options_initialize, tic_time, elapsed_control_time, y,
                   y_store, u_store, inputs_metadata, call, n_advance, n_ok,
                   zero_step, caller>>

ClampNext ==
    \/ Clamp
    \/ \E u \in Requests : n_advance = 0 /\ advance(u)

ClampSpec == ClampInit /\ [][ClampNext]_vars

-----------------------------------------------------------------------------
(* The caller specification: a caller that keeps the histories get_results
   returned and the sample advance returned, across later steps and resets *)

\* line 236: Y = {'y': self.y_store, 'u': self.u_store}, the two dicts
\* themselves and no copy of them
get_results ==
    /\ caller' = [caller EXCEPT !.results =
                      [held |-> TRUE, shared |-> TRUE,
                       now |-> [y |-> y_store, u |-> u_store]]]
    /\ call' = Called("get_results")
    /\ UNCHANGED <<start_time, final_time, step, horizon, interval, initialize,
                   options_initialize, tic_time, elapsed_control_time, y,
                   y_store, u_store, inputs_metadata, n_advance, n_ok,
                   zero_step, probe>>

\* line 150: return self.y, the dict itself; the caller keeps what the
\* advance that has just returned gave it
KeepSample ==
    /\ call.op = "advance"
    /\ call.outcome = "ok"
    /\ caller' = [caller EXCEPT !.sample =
                      [held |-> TRUE, shared |-> TRUE, now |-> y]]
    /\ UNCHANGED <<start_time, final_time, step, horizon, interval, initialize,
                   options_initialize, tic_time, elapsed_control_time, y,
                   y_store, u_store, inputs_metadata, call, n_advance, n_ok,
                   zero_step, probe>>

CallerNext ==
    \/ \E u \in StepRequests : n_advance < MaxAdvance /\ AdvanceReturns(u)
    \/ KeepSample
    \/ get_results
    \/ reset

CallerSpec == Init /\ [][CallerNext]_vars

-----------------------------------------------------------------------------
(* The claims *)

AdvanceJustCalled == call'.op = "advance" /\ n_advance' = n_advance + 1

Occurrences(seq, v) == Cardinality({i \in 1..Len(seq) : seq[i] = v})

EqualLength(store, keys) ==
    \A k1 \in keys, k2 \in keys : Len(store[k1]) = Len(store[k2])

\* C1, as stated: the engine is invoked with initialize = true exactly on the
\* first advance call after construction or after a reset, and with
\* initialize = false on every later advance call until the next reset.
C1_InitializeOnFirstCallOnly ==
    (call.op = "advance" /\ call.engine_called)
        => (call.init <=> call.advance_before = 0)

\* C1, amended: the engine is invoked with initialize = true exactly on the
\* advance calls made while no advance has returned since construction or
\* the latest reset (the first advance and every retry of a failed first
\* advance), and with initialize = false on every later advance until the
\* next reset.
C1_InitializeUntilFirstReturn ==
    (call.op = "advance" /\ call.engine_called)
        => (call.init <=> call.ok_before = 0)

\* a second step after a returned first one: the engine is told not to initialize
C1_Witness ==
    /\ call.op = "advance"
    /\ call.outcome = "ok"
    /\ call.ok_before = 1
    /\ ~call.init

\* C2: the first advance after construction or after a reset appends nothing
\* to the elapsed-time log and every later advance appends one entry: after N
\* advance calls since construction or since the latest reset the log has
\* length N-1, and length 0 when N is 0 or 1.
C2_LatencyLogLength ==
    Len(elapsed_control_time) = IF n_advance = 0 THEN 0 ELSE n_advance - 1

C4_StrictlyIncreasingTime ==
    /\ EqualLength(y_store, YKeys)
    /\ EqualLength(u_store, UKeys)
    /\ \A i \in 3..(Len(y_store[TIME]) - 1) : y_store[TIME][i] < y_store[TIME][i + 1]
    /\ \A i \in 3..(Len(u_store[TIME]) - 1) : u_store[TIME][i] < u_store[TIME][i + 1]

\* C4, amended: after any sequence of advance and set_step calls every
\* sequence of y_store has the same length, every sequence of u_store has the
\* same length, and the stored time history never decreases; it is strictly
\* increasing, from its first sample on, as long as every advance that
\* returned since construction or reset ran with a step greater than 0.
C4_MonotoneTime ==
    /\ EqualLength(y_store, YKeys)
    /\ EqualLength(u_store, UKeys)
    /\ u_store[TIME] = y_store[TIME]
    /\ \A i \in 1..(Len(y_store[TIME]) - 1) :
        /\ y_store[TIME][i] <= y_store[TIME][i + 1]
        /\ ~zero_step => y_store[TIME][i] < y_store[TIME][i + 1]

\* three samples or more stored by steps of different lengths, none of them 0
C4_Witness ==
    /\ ~zero_step
    /\ n_ok >= 2
    /\ Len(y_store[TIME]) >= 3
    /\ \E i \in 1..(Len(y_store[TIME]) - 1) :
           y_store[TIME][i + 1] - y_store[TIME][i] # y_store[TIME][1]

\* C5: after reset(), whatever calls came before it, get_results() returns
\* empty histories for every variable of y and u, start_time is 0, and
\* get_step() and get_forecast_parameters() return the configured defaults.
C5_ResetEquivalence ==
    call.op = "reset" =>
        /\ \A key \in YKeys : y_store[key] = <<>>
        /\ \A key \in UKeys : u_store[key] = <<>>
        /\ start_time = 0
        /\ step = ConStep
        /\ horizon = ConHorizon
        /\ interval = ConInterval

\* a reset of a harness that has stepped before
C5_Witness == call.op = "reset" /\ tic_time /\ final_time # <<>>

\* C6: when the engine call inside advance fails, the failure reaches the
\* caller and start_time, the initialize flag, y_store and u_store are as
\* they were before the call; a following successful advance covers the
\* window the failed one would have covered.
C6_EngineFailureCommitsNothing ==
    [][/\ (AdvanceJustCalled /\ call'.engine_called /\ call'.outcome # "ok")
          => /\ call'.outcome = "EngineError"
             /\ UNCHANGED <<start_time, initialize, y_store, u_store>>
       /\ (/\ call.op = "advance" /\ call.outcome = "EngineError"
           /\ AdvanceJustCalled /\ call'.outcome = "ok")
          => /\ call'.t0 = call.t0
             /\ call'.t1 = call.t1]_vars

\* the engine fails on a harness that holds history
C6_Witness ==
    /\ call.op = "advance"
    /\ call.outcome = "EngineError"
    /\ start_time > 0
    /\ y_store[TIME] # <<>>

\* C7: a request value that cannot be coerced to a number makes the advance
\* call fail without mutating any state: start_time, final_time, the
\* initialize flag, both stores, the current sample and the elapsed-time log
\* are unchanged, and the engine is not called.
C7_CoercionFailureMutatesNothing ==
    [][(AdvanceJustCalled /\ Raises(call'.request))
       => /\ call'.outcome = "ValueError"
          /\ ~call'.engine_called
          /\ UNCHANGED <<start_time, final_time, initialize, y_store,
                         u_store, y, elapsed_control_time>>]_vars

\* C8: for a non-flag input with declared bounds min <= max the check returns
\* the value unchanged when min <= value <= max, max when value > max and min
\* when value < min; an input whose name contains the activation marker
\* reaches the engine with its requested value, whatever the value.
C8_ClampingResult ==
    LET mini == inputs_metadata[U].Minimum
        maxi == inputs_metadata[U].Maximum
        Clamped(v) == IF v > maxi THEN maxi ELSE IF v < mini THEN mini ELSE v
        Expected(key, v) == IF key = U THEN Clamped(v) ELSE v
        traj == call.input_object.u_trajectory
        names == call.input_object.u_list
    IN  /\ (probe.out # <<>> /\ (probe.key = U => mini <= maxi))
            => probe.out[1] = Expected(probe.key, probe.value)
        /\ (call.op = "advance" /\ call.engine_called /\ mini <= maxi)
            => \A i \in 1..Len(names) :
                   traj[i + 1] = Expected(names[i], call.request[names[i]].num)

\* a value below the minimum of well-ordered bounds has been checked
C8_Witness ==
    /\ probe.key = U
    /\ probe.out # <<>>
    /\ probe.value < inputs_metadata[U].Minimum
    /\ inputs_metadata[U].Minimum < inputs_metadata[U].Maximum

\* C9, as stated: for every non-flag input, every pair of declared bounds and
\* every value, clamping an already clamped value returns it again.
C9_ClampIdempotent ==
    (probe.key = U /\ Len(probe.out) = 2) => probe.out[2] = probe.out[1]

\* C9, amended: for every non-flag input, every pair of declared bounds with
\* min <= max and every value, clamping an already clamped value returns it
\* again.
C9_ClampIdempotentOrdered ==
    (/\ probe.key = U
     /\ Len(probe.out) = 2
     /\ inputs_metadata[U].Minimum <= inputs_metadata[U].Maximum)
        => probe.out[2] = probe.out[1]

\* a value above the maximum of well-ordered bounds has been clamped twice
C9_Witness ==
    /\ probe.key = U
    /\ Len(probe.out) = 2
    /\ inputs_metadata[U].Minimum <= inputs_metadata[U].Maximum
    /\ probe.value > inputs_metadata[U].Maximum
    /\ probe.out[1] # probe.value

\* C10: when a request holds at least one written value, the input trajectory
\* handed to the engine names exactly the keys of the request, other than
\* time, whose value is a present number (zero among them), each paired with
\* its clamped value (unclamped for a flag) and all stamped at start_time;
\* keys whose value is None or empty are left out.
C10_TrajectoryConstruction ==
    LET u == call.request
        Present(key) == u[key].tag \in {"num", "numstr"}
        Named(key) == key # TIME /\ Present(key)
        names == SelectSeq(KeyOrder, Named)
        mini == inputs_metadata[U].Minimum
        maxi == inputs_metadata[U].Maximum
        Clamped(v) == IF v > maxi THEN maxi ELSE IF v < mini THEN mini ELSE v
        Expected(key) == IF key = U THEN Clamped(u[key].num) ELSE u[key].num
    IN  (/\ call.op = "advance"
         /\ call.engine_called
         /\ \E key \in RequestKeys : Present(key))
        => /\ ~call.input_object.is_none
           /\ call.input_object.u_list = names
           /\ call.input_object.u_trajectory =
                  <<call.t0>> \o [i \in 1..Len(names) |-> Expected(names[i])]

Unwritten(u) == \A key \in RequestKeys : u[key].tag \in {"absent", "None", "empty"}

\* C11: an advance whose request is empty, or holds only values that are None
\* or empty, raises no error of its own, reaches the engine with no input
\* trajectory, and, when the engine answers, moves the clock to the end of
\* the window and extends the sample and both stores as any other step does.
C11_PartialInput ==
    [][(AdvanceJustCalled /\ Unwritten(call'.request))
        => /\ call'.outcome \in {"ok", "EngineError"}
           /\ call'.engine_called
           /\ call'.input_object = NoInput
           /\ call'.t0 = start_time
           /\ call'.t1 = start_time + step
           /\ call'.outcome = "ok"
                => /\ start_time' = start_time + step
                   /\ y'[TIME] = <<start_time + step>>
                   /\ \E res \in Simulate(start_time, start_time + step) :
                        /\ \A key \in YKeys :
                               y_store'[key] = y_store[key] \o SubSeq(res[key], 2, Len(res[key]))
                        /\ \A key \in UKeys :
                               u_store'[key] = u_store[key] \o SubSeq(res[key], 2, Len(res[key]))]_vars

\* a returned step whose request names the input with None and nothing else
C11_Witness ==
    /\ call.op = "advance"
    /\ call.outcome = "ok"
    /\ call.request = [EmptyRequest EXCEPT ![U] = NoneV]
    /\ call.input_object = NoInput
    /\ start_time = call.t0 + step
    /\ start_time > 0

\* C12: a value for time in the request is ignored: the input handed to the
\* engine by advance(r) is the input advance hands over for r without its
\* time key; a request whose only written value is time reaches the engine
\* with no input trajectory, as the empty request does.
C12_TimeIgnored ==
    (call.op = "advance" /\ call.engine_called)
        => call.input_object =
               InputObject([call.request EXCEPT ![TIME] = Absent], call.t0)

\* C13: the forecast parameters are never negative: in every reachable state
\* horizon >= 0 and interval >= 0, a set_forecast_parameters call with a
\* negative horizon or interval installing nothing negative.
C13_ForecastNonNegative ==
    horizon >= 0 /\ interval >= 0

\* C14: set_step(s) installs s as the step and changes nothing else:
\* start_time, the initialize flag, y_store, u_store, the current sample, the
\* forecast parameters and the elapsed-time log stay as they were, and the
\* window the engine gets from the advance that follows is
\* [start_time, start_time + s].
C14_SetStepFrame ==
    [][/\ (call'.op = "set_step" /\ call' # call)
            => /\ step' = call'.arg
               /\ UNCHANGED <<start_time, initialize, y_store, u_store, y,
                              horizon, interval, elapsed_control_time>>
       /\ (call.op = "set_step" /\ AdvanceJustCalled /\ call'.engine_called)
            => /\ call'.t0 = start_time
               /\ call'.t1 = start_time + call.arg]_vars

\* the longest step set in the middle of a run, and the window that follows it
C14_Witness ==
    /\ call.op = "advance"
    /\ call.engine_called
    /\ call.ok_before > 0
    /\ call.t0 > 0
    /\ call.t1 = call.t0 + MaxStep
    /\ step = MaxStep
    /\ step # ConStep

\* C15: get_results() has read-only snapshot semantics: calling it changes no
\* state of the harness, and the histories a caller obtained from it read the
\* same after any later advance or reset on the same harness.
C15_ResultsSnapshot ==
    [][/\ call'.op = "get_results"
            => UNCHANGED <<start_time, final_time, step, horizon, interval,
                           initialize, options_initialize, tic_time,
                           elapsed_control_time, y, y_store, u_store,
                           inputs_metadata>>
       /\ (caller.results.held /\ call'.op \in {"advance", "reset"})
            => caller'.results.now = caller.results.now]_vars

AdvanceJustReturned == AdvanceJustCalled /\ call'.outcome = "ok"

\* C16: the windows of the advance calls that return are contiguous: the
\* first one since construction or reset starts at 0, every window [t0,t1]
\* has t1 = t0 + the step in force at the call, its t0 is the t1 of the
\* window before it (the clock moves at no other call but reset), and the
\* returned sample's time is t1; a k-th advance that finds the clock at
\* (k-1)*s under the step s returns time = k*s.
C16_ContiguousWindows ==
    [][/\ AdvanceJustReturned
            => /\ call'.t0 = start_time
               /\ call'.ok_before = 0 => call'.t0 = 0
               /\ (call.op = "advance" /\ call.outcome = "ok") => call'.t0 = call.t1
               /\ call'.t1 = call'.t0 + step
               /\ y'[TIME] = <<call'.t1>>
               /\ start_time' = call'.t1
               /\ start_time = n_ok * step => y'[TIME] = <<n_ok' * step>>
       /\ start_time' # start_time
            => AdvanceJustReturned \/ call'.op = "reset"]_vars

\* the third returned advance under a constant step of MaxStep
C16_Witness ==
    /\ call.op = "advance"
    /\ call.outcome = "ok"
    /\ call.ok_before = 2
    /\ step = MaxStep
    /\ call.t0 = 2 * MaxStep
    /\ y[TIME] = <<3 * MaxStep>>

\* C17: after every advance that returned, the engine having given two or
\* more samples per variable, the returned sample equals, for time and for
\* every output variable, the last element of that variable's sequence in
\* y_store.
C17_SampleIsLastStored ==
    (call.op = "advance" /\ call.outcome = "ok" /\ call.m >= 2)
        => \A key \in YKeys :
              /\ y_store[key] # <<>>
              /\ y[key] = <<y_store[key][Len(y_store[key])]>>

\* a second returned step of more than two samples
C17_Witness ==
    /\ call.op = "advance"
    /\ call.outcome = "ok"
    /\ call.ok_before = 1
    /\ call.m > 2
    /\ y[OUT] = <<y_store[OUT][Len(y_store[OUT])]>>
    /\ y[OUT] # <<y_store[OUT][1]>>

IsPrefix(old, new) == Len(old) <= Len(new) /\ SubSeq(new, 1, Len(old)) = old

\* C18: the stores are empty when no advance has returned since construction
\* or reset; an advance that returns with m samples per variable appends to
\* every stored sequence the m - 1 samples after the first of the response,
\* so that after N returned advances every sequence has length
\* (m_1 - 1) + ... + (m_N - 1); no call but reset takes anything out of a
\* store or changes what it holds; and the sample at the start of the first
\* window is not stored: no stored time is 0 unless a window of length 0 has
\* been stepped.
C18_StoreGrowth ==
    [][/\ n_ok = 0
            => /\ \A key \in YKeys : y_store[key] = <<>>
               /\ \A key \in UKeys : u_store[key] = <<>>
       /\ AdvanceJustReturned
            => \E res \in Simulate(call'.t0, call'.t1) :
                  /\ call'.m = Len(res[TIME])
                  /\ \A key \in YKeys :
                        /\ Len(y_store'[key]) = Len(y_store[key]) + (call'.m - 1)
                        /\ y_store'[key] = y_store[key] \o SubSeq(res[key], 2, call'.m)
                  /\ \A key \in UKeys :
                        /\ Len(u_store'[key]) = Len(u_store[key]) + (call'.m - 1)
                        /\ u_store'[key] = u_store[key] \o SubSeq(res[key], 2, call'.m)
       /\ ~AdvanceJustReturned /\ call'.op # "reset"
            => UNCHANGED <<y_store, u_store>>
       /\ call'.op # "reset"
            => /\ \A key \in YKeys : IsPrefix(y_store[key], y_store'[key])
               /\ \A key \in UKeys : IsPrefix(u_store[key], u_store'[key])
       /\ ~zero_step'
            => /\ \A i \in 1..Len(y_store'[TIME]) : y_store'[TIME][i] # 0
               /\ \A i \in 1..Len(u_store'[TIME]) : u_store'[TIME][i] # 0]_vars

\* two returned steps of three and of two samples: three stored samples,
\* the first of them the second sample of the first response
C18_Witness ==
    /\ call.op = "advance"
    /\ call.outcome = "ok"
    /\ call.ok_before = 1
    /\ call.m = 2
    /\ call.t0 = 2
    /\ Len(y_store[TIME]) = 3
    /\ Len(u_store[U]) = 3
    /\ y_store[TIME] = <<1, 2, 3>>

\* C19: the sample object an advance call returned is not changed by a later
\* advance call: a caller that keeps the sample of step k reads step k's
\* values in it after step k+1 has run.
C19_SampleKept ==
    [][(caller.sample.held /\ AdvanceJustCalled)
        => caller'.sample.now = caller.sample.now]_vars

=============================================================================
